---- MODULE Spec2Model ----
(***************************************************************************)
(* Flight-Tracker-Pi: the orchestrator (main.py), the flight data source   *)
(* (src/flight_tracker.py), the weather data source (src/weather.py) and   *)
(* the touch debouncer (src/touch.py) and the display driver's push        *)
(* (src/display.py) as state machines.                                     *)
(*                                                                         *)
(* Units: wall-clock seconds in `now`/`w_now`, milliseconds in `t_now`,    *)
(* coordinates in tenths of a degree, haversine distances in millimetres,  *)
(* FlightInfo.distance_km in tenths of a kilometre (round(distance, 1)).   *)
(***************************************************************************)
EXTENDS Integers, Sequences, FiniteSets, TLC

VARIABLES
    \* ---- FlightTrackerApp (main.py) ----
    running,                \* self.running
    current_flights,        \* self.current_flights
    selected_flight_index,  \* self.selected_flight_index
    last_flight_check,      \* self.last_flight_check
    now,                    \* time.time() as seen by the main thread, seconds
    pc,                     \* position of the main thread inside run()
    new_flights,            \* local new_flights of _check_flights
    clamp_idx,              \* index loaded for the bounds test of _check_flights
    has_flights,            \* local has_flights of run()
    polled,                 \* what _check_flights did in this iteration
    sig_received,           \* a SIGINT/SIGTERM has been delivered
    exc_caught,             \* number of exceptions caught by the loop (capped)
    rendered,               \* view rendered so far in this iteration
    listening,              \* the touch listener thread is reading events
    touch_start,            \* what touch_handler.start() returned
    shutdown_log,           \* cleanup steps of run() performed so far
    last_request,           \* time of the latest feed request, -1 before the first
    \* ---- listener thread executing _on_tap ----
    tap_pc,                 \* position of the listener thread inside _on_tap
    tap_idx,                \* value of self.selected_flight_index it loaded
    tap_val,                \* value it is about to store
    tap_idx0,               \* index when the tap began
    tap_len0,               \* flight count when the tap began
    tap_clean,              \* no main-thread write to index/list since it began
    tap_last,               \* record of the last completed tap
    \* ---- FlightTracker.get_nearby_flights called on its own ----
    f_resp,                 \* outcome of the feed request
    f_radius,               \* self.radius_km, in the unit of the distances
    f_result,               \* what the call did
    \* ---- WeatherClient ----
    w_now,                  \* time.time(), seconds
    cached_weather,         \* self._cached_weather
    last_fetch,             \* self._last_fetch
    w_call,                 \* record of the last get_weather call
    last_ok,                \* time and snapshot of the last successful fetch
    w_loc,                  \* self.latitude, self.longitude
    loc_call,               \* record of an update_location since the last get_weather
    \* ---- SimpleTouchDetector ----
    t_now,                  \* time.time() * 1000, milliseconds
    last_tap_time,          \* self.last_tap_time
    t_call,                 \* record of the last _on_touch call
    \* ---- MHS35Display.update called on its own ----
    d_cfg,                  \* the display object and the device files it finds
    d_pc,                   \* position inside update()
    d_out,                  \* what update() has done so far
    \* ---- one pixel through the RGB565 conversion ----
    px_in,                  \* the pixel (r, g, b) and the conversion path taken
    px_out,                 \* the 16-bit value and the bytes written for it
    \* ---- TouchHandler and its listener thread ----
    h_pc,                   \* position of the thread inside _read_events
    h_running,              \* self.running
    h_stopped,              \* stop() has been called
    touching,               \* self.touching
    k_queue,                \* events the kernel holds for the open device
    py_buf,                 \* events read ahead by the buffered file object
    h_hist,                 \* events processed so far, with what each did
    \* ---- IdleScreen ----
    i_now,                  \* time.time(), tenths of a second
    i_self,                 \* current_page and last_page_change of the object
    i_renders,              \* number of times render() has run (capped)
    i_call                  \* time and page of the latest render()

appVars   == <<running, current_flights, selected_flight_index, last_flight_check,
               now, pc, new_flights, clamp_idx, has_flights, polled, sig_received, exc_caught,
               rendered, listening, touch_start, shutdown_log, last_request,
               tap_pc, tap_idx, tap_val, tap_idx0, tap_len0, tap_clean, tap_last>>
feedVars  == <<f_resp, f_radius, f_result>>
wxVars    == <<w_now, cached_weather, last_fetch, w_call, last_ok, w_loc, loc_call>>
touchVars == <<t_now, last_tap_time, t_call>>
displayVars == <<d_cfg, d_pc, d_out>>
pixelVars == <<px_in, px_out>>
handlerVars == <<h_pc, h_running, h_stopped, touching, k_queue, py_buf, h_hist>>
idleVars  == <<i_now, i_self, i_renders, i_call>>
vars      == <<appVars, feedVars, wxVars, touchVars, displayVars, pixelVars, handlerVars,
               idleVars>>

\* what each component leaves alone
notApp     == <<feedVars, wxVars, touchVars, displayVars, pixelVars,
               handlerVars, idleVars>>
notFeed    == <<appVars, wxVars, touchVars, displayVars, pixelVars,
               handlerVars, idleVars>>
notWx      == <<appVars, feedVars, touchVars, displayVars, pixelVars,
               handlerVars, idleVars>>
notTouch   == <<appVars, feedVars, wxVars, displayVars, pixelVars,
               handlerVars, idleVars>>
notDisplay == <<appVars, feedVars, wxVars, touchVars, pixelVars,
               handlerVars, idleVars>>
notPixel   == <<appVars, feedVars, wxVars, touchVars, displayVars,
               handlerVars, idleVars>>
notHandler == <<appVars, feedVars, wxVars, touchVars, displayVars,
               pixelVars, idleVars>>
notIdle    == <<appVars, feedVars, wxVars, touchVars, displayVars,
               pixelVars, handlerVars>>

----------------------------------------------------------------------------
(* Bounds of the model *)

MaxEntries == 2     \* entries in one feed response
MaxTime    == 12    \* the main thread's clock stops here
MaxExc     == 1     \* cap of the caught-exception counter
MaxWxTime  == 1650  \* the weather client's clock stops here
MaxTouchTime == 1800 \* the debouncer's clock stops here

----------------------------------------------------------------------------
(* Flight data source: src/flight_tracker.py *)

\* Python's None
None == [none |-> TRUE]

RadiusKm    == 50   \* radius_km default

\* kilometres to the unit of _haversine_distance below
Km(k) == k * 1000000

CoordVals == {0, 1, 2, 5}

\* A raw JSON field holding a coordinate: a number, an empty value, or
\* something float() rejects.
RawCoords == {<<"num", c>> : c \in CoordVals} \cup {<<"empty", 0>>, <<"bad", 0>>}

\* A raw JSON field that int() is applied to (altitude; speed, heading and
\* vertical speed are coerced by the same expression): a number, something
\* int() rejects with ValueError/TypeError, or a float infinity (the JSON
\* literal 1e999), which int() rejects with OverflowError.
RawInts == {"num", "bad", "inf"}

\* A raw JSON field that str() is applied to when it is truthy: a string
\* (the empty one is falsy), null, or, for the callsign at index 16, a
\* field past the end of a list of 14 to 16 elements.
RawNumbers   == {<<"str", "BA123">>, <<"str", "">>, <<"null", "">>}
RawCallsigns == {<<"str", "BAW123">>, <<"str", "">>, <<"null", "">>, <<"absent", "">>}

\* One value of the feed's JSON object.  "meta" is a value that is not a
\* list (full_count, version), "short" a list of fewer than 14 elements.
\* The entries with an altitude that is not a number sit at the observer's
\* own position, those whose flight number or callsign varies a tenth of a
\* degree east of it.
Entries ==
    {[form |-> "meta", lat |-> <<"empty", 0>>, lon |-> <<"empty", 0>>, alt |-> "num",
      fn |-> <<"str", "BA123">>, cs |-> <<"str", "BAW123">>],
     [form |-> "short", lat |-> <<"empty", 0>>, lon |-> <<"empty", 0>>, alt |-> "num",
      fn |-> <<"str", "BA123">>, cs |-> <<"str", "BAW123">>]}
    \cup [form : {"full"}, lat : RawCoords, lon : RawCoords, alt : {"num"},
          fn : {<<"str", "BA123">>}, cs : {<<"str", "BAW123">>}]
    \cup [form : {"full"}, lat : {<<"num", 1>>}, lon : {<<"num", 0>>},
          alt : RawInts \ {"num"},
          fn : {<<"str", "BA123">>}, cs : {<<"str", "BAW123">>}]
    \cup [form : {"full"}, lat : {<<"num", 1>>}, lon : {<<"num", 1>>}, alt : {"num"},
          fn : RawNumbers, cs : RawCallsigns]

SeqsUpTo(S, n) == UNION {[1..k -> S] : k \in 0..n}

FailKinds == {"net_error", "http_error", "bad_json", "json_nonobject"}

Responses ==
    [kind : FailKinds, entries : {<<>>}]
    \cup [kind : {"json_object"}, entries : SeqsUpTo(Entries, MaxEntries)]

\* _haversine_distance from an observer at (0.1 deg, 0.0 deg), in
\* millimetres, tabulated for the positions of CoordVals (values of the
\* formula, truncated to the millimetre).
_haversine_distance(lat, lon) ==
    CASE lat = 0 /\ lon = 0 -> 11119492
      [] lat = 0 /\ lon = 1 -> 15725333
      [] lat = 0 /\ lon = 2 -> 24863931
      [] lat = 0 /\ lon = 5 -> 56698482
      [] lat = 1 /\ lon = 0 -> 0
      [] lat = 1 /\ lon = 1 -> 11119475
      [] lat = 1 /\ lon = 2 -> 22238951
      [] lat = 1 /\ lon = 5 -> 55597378
      [] lat = 2 /\ lon = 0 -> 11119492
      [] lat = 2 /\ lon = 1 -> 15725309
      [] lat = 2 /\ lon = 2 -> 24863870
      [] lat = 2 /\ lon = 5 -> 56698316
      [] lat = 5 /\ lon = 0 -> 44477970
      [] lat = 5 /\ lon = 1 -> 45846800
      [] lat = 5 /\ lon = 2 -> 49727726
      [] lat = 5 /\ lon = 5 -> 71198809

\* The radii get_nearby_flights is called with on its own: the default, and
\* one that equals the distance of a position of the table.
Radii == {Km(RadiusKm), _haversine_distance(5, 0)}

\* round(distance, 1): millimetres to tenths of a kilometre
RoundTenth(m) == (m + 50000) \div 100000

\* float(value[i]) if value[i] else 0
CoerceCoord(raw) == IF raw[1] = "num" THEN raw[2] ELSE 0

\* a position test that lets a numeric (0, 0) through
NullPosition_OnlyMissing(e) == e.lat[1] = "empty" /\ e.lon[1] = "empty"

\* if lat == 0 and lon == 0: continue
NullPosition(e) == CoerceCoord(e.lat) = 0 /\ CoerceCoord(e.lon) = 0

\* a radius test that drops the entry at exactly the radius
OutOfRadius_Inclusive(distance, radius) == distance >= radius

\* if distance > self.radius_km: continue
OutOfRadius(distance, radius) == distance > radius

\* len(value) > i and value[i]
Truthy(raw) == raw[1] = "str" /\ raw[2] # ""

\* callsign = str(value[16]) if len(value) > 16 and value[16] else flight_number
Callsign(e) ==
    IF Truthy(e.cs) THEN e.cs[2]
    ELSE IF Truthy(e.fn) THEN e.fn[2] ELSE ""

\* a flight number taken from the callsign with no default behind it
FlightNumber_NoDefault(e) ==
    IF Truthy(e.fn) THEN e.fn[2] ELSE Callsign(e)

\* flight_number = str(value[13]) if len(value) > 13 and value[13] else '';
\* if not flight_number: flight_number = callsign or 'Unknown'
FlightNumber(e) ==
    IF Truthy(e.fn) THEN e.fn[2]
    ELSE IF Callsign(e) # "" THEN Callsign(e) ELSE "Unknown"

Skipped  == [outcome |-> "skip",
             flight |-> [latitude |-> 0, longitude |-> 0, distance_km |-> 0,
                         flight_number |-> "", callsign |-> ""]]
Escaping == [outcome |-> "raise",
             flight |-> [latitude |-> 0, longitude |-> 0, distance_km |-> 0,
                         flight_number |-> "", callsign |-> ""]]

\* The body of the per-entry loop: the entry is skipped (continue, or one of
\* IndexError/TypeError/ValueError caught), an exception escapes the loop,
\* or one FlightInfo is appended to nearby_flights.
DecodeEntry(e, radius) ==
    IF e.form # "full" THEN Skipped                        \* not a list, or < 14
    ELSE IF e.lat[1] = "bad" \/ e.lon[1] = "bad" THEN Skipped  \* float(): ValueError
    ELSE IF NullPosition(e) THEN Skipped
    ELSE LET lat == CoerceCoord(e.lat)
             lon == CoerceCoord(e.lon)
         IN IF OutOfRadius(_haversine_distance(lat, lon), radius) THEN Skipped
            ELSE IF e.alt = "bad" THEN Skipped             \* int(): ValueError
            ELSE IF e.alt = "inf" THEN Escaping            \* int(): OverflowError
            ELSE [outcome |-> "append",
                  flight |-> [latitude |-> lat, longitude |-> lon,
                              distance_km |->
                                  RoundTenth(_haversine_distance(lat, lon)),
                              flight_number |-> FlightNumber(e),
                              callsign |-> Callsign(e)]]

\* for key, value in data.items(): ...
RECURSIVE DecodeAll(_, _)
DecodeAll(es, radius) ==
    IF es = <<>> THEN [raised |-> FALSE, flights |-> <<>>]
    ELSE LET d == DecodeEntry(Head(es), radius)
         IN IF d.outcome = "raise" THEN [raised |-> TRUE, flights |-> <<>>]
            ELSE LET rest == DecodeAll(Tail(es), radius)
                 IN IF rest.raised THEN rest
                    ELSE [raised |-> FALSE,
                          flights |-> (IF d.outcome = "append"
                                         THEN <<d.flight>> ELSE <<>>)
                                      \o rest.flights]

\* list.sort(key=distance_km): stable insertion
RECURSIVE InsertByDistance(_, _)
InsertByDistance(f, s) ==
    IF s = <<>> THEN <<f>>
    ELSE IF f.distance_km < Head(s).distance_km THEN <<f>> \o s
    ELSE <<Head(s)>> \o InsertByDistance(f, Tail(s))

RECURSIVE SortByDistance(_)
SortByDistance(s) ==
    IF s = <<>> THEN <<>>
    ELSE InsertByDistance(s[Len(s)], SortByDistance(SubSeq(s, 1, Len(s) - 1)))

\* What the feed request and response.json() leave behind: "handled" when
\* one of the two except clauses returned [], else the decoded body.
FeedBody(resp) ==
    IF resp.kind \in {"net_error", "http_error", "bad_json"} THEN "handled"
    ELSE resp.kind

get_nearby_flights(resp, radius) ==
    IF FeedBody(resp) = "handled"
      THEN [raised |-> FALSE, flights |-> <<>>]
    ELSE IF FeedBody(resp) = "json_nonobject"
      THEN [raised |-> TRUE, flights |-> <<>>]       \* data.items(): AttributeError
    ELSE LET decoded == DecodeAll(resp.entries, radius)
         IN IF decoded.raised THEN decoded
            ELSE [raised |-> FALSE, flights |-> SortByDistance(decoded.flights)]

\* The responses the orchestrator is run against: the failures, and the
\* objects whose entries lie on the observer's meridian, at or south of the
\* observer or half a degree north.
AppResponses ==
    {r \in Responses :
        \A i \in 1..Len(r.entries) :
            /\ r.entries[i].lon = <<"num", 0>>
            /\ r.entries[i].lat # <<"num", 2>>}

FeedResults == {get_nearby_flights(r, Km(RadiusKm)) : r \in AppResponses}

----------------------------------------------------------------------------
(* Orchestrator: main.py *)

FlightUpdateInterval == 5   \* flight_update_interval_seconds default

\* an off-by-one emptiness test
HasFlights_OffByOne(flights) == Len(flights) > 1

\* len(self.current_flights) > 0
HasFlights(flights) == Len(flights) > 0

mainVars == <<running, current_flights, selected_flight_index, last_flight_check,
              now, pc, new_flights, clamp_idx, has_flights, polled, exc_caught, rendered,
              listening, touch_start, shutdown_log, last_request>>
tapVars  == <<tap_pc, tap_idx, tap_val, tap_idx0, tap_len0, tap_last>>

InitApp ==
    /\ running = TRUE
    /\ current_flights = <<>>
    /\ selected_flight_index = 0
    /\ last_flight_check = 0
    /\ now = FlightUpdateInterval      \* time.time() is past the first interval
    /\ pc = "loading_init"
    /\ new_flights = <<>>
    /\ clamp_idx = 0
    /\ has_flights = FALSE
    /\ polled = "none"
    /\ sig_received = FALSE
    /\ exc_caught = 0
    /\ rendered = "none"
    /\ listening = FALSE
    /\ touch_start = "pending"
    /\ shutdown_log = <<>>
    /\ last_request = -1
    /\ tap_pc = "idle"
    /\ tap_idx = 0
    /\ tap_val = 0
    /\ tap_idx0 = 0
    /\ tap_len0 = 0
    /\ tap_clean = TRUE
    /\ tap_last = None

\* what the steps of run() before and after the loop leave alone
loopVars == <<running, current_flights, selected_flight_index, last_flight_check,
              new_flights, clamp_idx, has_flights, polled, exc_caught, rendered,
              sig_received, last_request, tapVars, tap_clean>>

\* self.loading_screen.render("Initializing..."): draws and pushes, or the
\* display raises; nothing in run() catches it
LoadingInit ==
    /\ pc = "loading_init"
    /\ \/ pc' = "touch_start"
       \/ pc' = "crashed"
    /\ UNCHANGED <<loopVars, now, listening, touch_start, shutdown_log>>
    /\ UNCHANGED notApp

\* if self.touch_handler.start(): False when no touch device was found,
\* else the listener thread is started
\* a start() that launches the listener whatever it found
StartTouch_AlwaysListens ==
    /\ pc = "touch_start"
    /\ \E device \in BOOLEAN :
           /\ touch_start' = (IF device THEN "started" ELSE "no_device")
           /\ listening' = TRUE
    /\ pc' = "loading_weather"
    /\ UNCHANGED <<loopVars, now, shutdown_log>>
    /\ UNCHANGED notApp

StartTouch ==
    /\ pc = "touch_start"
    /\ \E device \in BOOLEAN :
           /\ touch_start' = (IF device THEN "started" ELSE "no_device")
           /\ listening' = device
    /\ pc' = "loading_weather"
    /\ UNCHANGED <<loopVars, now, shutdown_log>>
    /\ UNCHANGED notApp

\* self.loading_screen.render("Fetching weather...")
LoadingWeather ==
    /\ pc = "loading_weather"
    /\ \/ pc' = "initial_weather"
       \/ pc' = "crashed"
    /\ UNCHANGED <<loopVars, now, listening, touch_start, shutdown_log>>
    /\ UNCHANGED notApp

\* weather = self.weather_client.get_weather(): returns a snapshot or None,
\* or raises what _fetch_weather does not catch
InitialWeather ==
    /\ pc = "initial_weather"
    /\ \/ pc' = "loading_scan"
       \/ pc' = "crashed"
    /\ UNCHANGED <<loopVars, now, listening, touch_start, shutdown_log>>
    /\ UNCHANGED notApp

\* self.loading_screen.render("Scanning for flights...")
LoadingScan ==
    /\ pc = "loading_scan"
    /\ \/ pc' = "startup_sleep"
       \/ pc' = "crashed"
    /\ UNCHANGED <<loopVars, now, listening, touch_start, shutdown_log>>
    /\ UNCHANGED notApp

\* time.sleep(1) before the loop
StartupSleep ==
    /\ pc = "startup_sleep"
    /\ now' = now + 1
    /\ pc' = "loop"
    /\ UNCHANGED <<loopVars, listening, touch_start, shutdown_log>>
    /\ UNCHANGED notApp

\* while self.running:
LoopHead ==
    /\ pc = "loop"
    /\ pc' = IF running THEN "check" ELSE "stop_touch"
    /\ polled' = "none"
    /\ rendered' = "none"
    /\ UNCHANGED <<running, current_flights, selected_flight_index, last_flight_check,
                   now, new_flights, clamp_idx, has_flights, exc_caught, sig_received,
                   tapVars, tap_clean>>
    /\ UNCHANGED <<listening, touch_start, shutdown_log, last_request>>
    /\ UNCHANGED notApp

\* an interval test that also skips the poll at exactly one interval
CheckDue_Exclusive ==
    /\ pc = "check"
    /\ IF now - last_flight_check <= FlightUpdateInterval
         THEN /\ has_flights' = HasFlights(current_flights)
              /\ polled' = "skipped"
              /\ pc' = "branch"
              /\ UNCHANGED last_flight_check
         ELSE /\ last_flight_check' = now
              /\ pc' = "fetch"
              /\ UNCHANGED <<has_flights, polled>>
    /\ UNCHANGED <<running, current_flights, selected_flight_index, now, new_flights, clamp_idx,
                   exc_caught, rendered, sig_received, tapVars, tap_clean>>
    /\ UNCHANGED <<listening, touch_start, shutdown_log, last_request>>
    /\ UNCHANGED notApp

\* _check_flights up to the fetch: the interval test and the timestamp
CheckDue ==
    /\ pc = "check"
    /\ IF now - last_flight_check < FlightUpdateInterval
         THEN /\ has_flights' = HasFlights(current_flights)
              /\ polled' = "skipped"
              /\ pc' = "branch"
              /\ UNCHANGED last_flight_check
         ELSE /\ last_flight_check' = now
              /\ pc' = "fetch"
              /\ UNCHANGED <<has_flights, polled>>
    /\ UNCHANGED <<running, current_flights, selected_flight_index, now, new_flights, clamp_idx,
                   exc_caught, rendered, sig_received, tapVars, tap_clean>>
    /\ UNCHANGED <<listening, touch_start, shutdown_log, last_request>>
    /\ UNCHANGED notApp

\* an except clause that reports no flights
Fetch_ReportsEmpty ==
    /\ pc = "fetch"
    /\ \E r \in FeedResults, d \in 0..1 :
         /\ now + d <= MaxTime
         /\ now' = now + d
         /\ last_request' = now
         /\ IF r.raised
              THEN /\ has_flights' = FALSE
                   /\ polled' = "raised"
                   /\ pc' = "branch"
                   /\ UNCHANGED new_flights
              ELSE /\ new_flights' = r.flights
                   /\ pc' = "cmp_len"
                   /\ UNCHANGED <<has_flights, polled>>
    /\ UNCHANGED <<running, current_flights, selected_flight_index, last_flight_check,
                   clamp_idx, exc_caught, rendered, sig_received, tapVars, tap_clean>>
    /\ UNCHANGED <<listening, touch_start, shutdown_log>>
    /\ UNCHANGED notApp

\* new_flights = self.flight_tracker.get_nearby_flights(), and the except
\* clause of _check_flights when the call raises
Fetch ==
    /\ pc = "fetch"
    /\ \E r \in FeedResults, d \in 0..1 :
         /\ now + d <= MaxTime
         /\ now' = now + d
         /\ last_request' = now
         /\ IF r.raised
              THEN /\ has_flights' = HasFlights(current_flights)
                   /\ polled' = "raised"
                   /\ pc' = "branch"
                   /\ UNCHANGED new_flights
              ELSE /\ new_flights' = r.flights
                   /\ pc' = "cmp_len"
                   /\ UNCHANGED <<has_flights, polled>>
    /\ UNCHANGED <<running, current_flights, selected_flight_index, last_flight_check,
                   clamp_idx, exc_caught, rendered, sig_received, tapVars, tap_clean>>
    /\ UNCHANGED <<listening, touch_start, shutdown_log>>
    /\ UNCHANGED notApp

\* if len(new_flights) != len(self.current_flights): index = 0
CmpLen ==
    /\ pc = "cmp_len"
    /\ selected_flight_index' =
         IF Len(new_flights) # Len(current_flights) THEN 0 ELSE selected_flight_index
    /\ pc' = "clamp"
    /\ tap_clean' = FALSE
    /\ UNCHANGED <<running, current_flights, last_flight_check, now, new_flights, clamp_idx,
                   has_flights, polled, exc_caught, rendered, sig_received, tapVars>>
    /\ UNCHANGED <<listening, touch_start, shutdown_log, last_request>>
    /\ UNCHANGED notApp

\* if self.selected_flight_index >= len(new_flights): the index is loaded,
\* then len(new_flights) is called
ClampLoad ==
    /\ pc = "clamp"
    /\ clamp_idx' = selected_flight_index
    /\ pc' = "clamp_store"
    /\ UNCHANGED <<running, current_flights, selected_flight_index, last_flight_check,
                   now, new_flights, has_flights, polled, exc_caught, rendered,
                   sig_received, tapVars, tap_clean>>
    /\ UNCHANGED <<listening, touch_start, shutdown_log, last_request>>
    /\ UNCHANGED notApp

\* ... the loaded index is compared and self.selected_flight_index = 0 stored
ClampStore ==
    /\ pc = "clamp_store"
    /\ selected_flight_index' =
         IF clamp_idx >= Len(new_flights) THEN 0 ELSE selected_flight_index
    /\ pc' = "assign"
    /\ tap_clean' = FALSE
    /\ UNCHANGED <<running, current_flights, last_flight_check, now, new_flights,
                   clamp_idx, has_flights, polled, exc_caught, rendered, sig_received,
                   tapVars>>
    /\ UNCHANGED <<listening, touch_start, shutdown_log, last_request>>
    /\ UNCHANGED notApp

\* self.current_flights = new_flights; return len(self.current_flights) > 0
Assign ==
    /\ pc = "assign"
    /\ current_flights' = new_flights
    /\ has_flights' = HasFlights(new_flights)
    /\ polled' = "ok"
    /\ pc' = "branch"
    /\ tap_clean' = FALSE
    /\ UNCHANGED <<running, selected_flight_index, last_flight_check, now, new_flights, clamp_idx,
                   exc_caught, rendered, sig_received, tapVars>>
    /\ UNCHANGED <<listening, touch_start, shutdown_log, last_request>>
    /\ UNCHANGED notApp

\* if has_flights: ... else: ...
Branch ==
    /\ pc = "branch"
    /\ pc' = IF has_flights THEN "show_flight" ELSE "show_idle"
    /\ UNCHANGED <<running, current_flights, selected_flight_index, last_flight_check,
                   now, new_flights, clamp_idx, has_flights, polled, exc_caught, rendered,
                   sig_received, tapVars, tap_clean>>
    /\ UNCHANGED <<listening, touch_start, shutdown_log, last_request>>
    /\ UNCHANGED notApp

\* _show_flight: the emptiness test and
\* selected_flight = self.current_flights[self.selected_flight_index]
ShowFlight ==
    /\ pc = "show_flight"
    /\ pc' = IF current_flights = <<>> THEN "status"
             ELSE IF selected_flight_index >= Len(current_flights) THEN "except"
             ELSE "render_flight"
    /\ UNCHANGED <<running, current_flights, selected_flight_index, last_flight_check,
                   now, new_flights, clamp_idx, has_flights, polled, exc_caught, rendered,
                   sig_received, tapVars, tap_clean>>
    /\ UNCHANGED <<listening, touch_start, shutdown_log, last_request>>
    /\ UNCHANGED notApp

\* self.flight_screen.render(...): draws and pushes, or raises
RenderFlight ==
    /\ pc = "render_flight"
    /\ \/ /\ rendered' = "flight"
          /\ pc' = "status"
       \/ /\ pc' = "except"
          /\ UNCHANGED rendered
    /\ UNCHANGED <<running, current_flights, selected_flight_index, last_flight_check,
                   now, new_flights, clamp_idx, has_flights, polled, exc_caught,
                   sig_received, tapVars, tap_clean>>
    /\ UNCHANGED <<listening, touch_start, shutdown_log, last_request>>
    /\ UNCHANGED notApp

\* selected = self.current_flights[self.selected_flight_index] and the print
Status ==
    /\ pc = "status"
    /\ pc' = IF selected_flight_index >= Len(current_flights) THEN "except" ELSE "sleep"
    /\ UNCHANGED <<running, current_flights, selected_flight_index, last_flight_check,
                   now, new_flights, clamp_idx, has_flights, polled, exc_caught, rendered,
                   sig_received, tapVars, tap_clean>>
    /\ UNCHANGED <<listening, touch_start, shutdown_log, last_request>>
    /\ UNCHANGED notApp

\* _show_idle: get_weather() and idle_screen.render(), either of which may raise
ShowIdle ==
    /\ pc = "show_idle"
    /\ \/ /\ rendered' = "idle"
          /\ pc' = "sleep"
       \/ /\ pc' = "except"
          /\ UNCHANGED rendered
    /\ UNCHANGED <<running, current_flights, selected_flight_index, last_flight_check,
                   now, new_flights, clamp_idx, has_flights, polled, exc_caught,
                   sig_received, tapVars, tap_clean>>
    /\ UNCHANGED <<listening, touch_start, shutdown_log, last_request>>
    /\ UNCHANGED notApp

\* time.sleep(1) at the end of the try body
Sleep ==
    /\ pc = "sleep"
    /\ \E d \in 1..2 : now + d <= MaxTime /\ now' = now + d
    /\ pc' = "loop"
    /\ UNCHANGED <<running, current_flights, selected_flight_index, last_flight_check,
                   new_flights, clamp_idx, has_flights, polled, exc_caught, rendered,
                   sig_received, tapVars, tap_clean>>
    /\ UNCHANGED <<listening, touch_start, shutdown_log, last_request>>
    /\ UNCHANGED notApp

\* a handler that leaves the loop instead of continuing
ExceptHandler_Break ==
    /\ pc = "except"
    /\ exc_caught' = IF exc_caught < MaxExc THEN exc_caught + 1 ELSE exc_caught
    /\ pc' = "stop_touch"
    /\ UNCHANGED <<running, current_flights, selected_flight_index, last_flight_check,
                   now, new_flights, clamp_idx, has_flights, polled, rendered,
                   sig_received, tapVars, tap_clean>>
    /\ UNCHANGED <<listening, touch_start, shutdown_log, last_request>>
    /\ UNCHANGED notApp

\* except Exception as e: print(...); time.sleep(1)
ExceptHandler ==
    /\ pc = "except"
    /\ \E d \in 1..2 : now + d <= MaxTime /\ now' = now + d
    /\ exc_caught' = IF exc_caught < MaxExc THEN exc_caught + 1 ELSE exc_caught
    /\ pc' = "loop"
    /\ UNCHANGED <<running, current_flights, selected_flight_index, last_flight_check,
                   new_flights, clamp_idx, has_flights, polled, rendered,
                   sig_received, tapVars, tap_clean>>
    /\ UNCHANGED <<listening, touch_start, shutdown_log, last_request>>
    /\ UNCHANGED notApp

\* self.touch_handler.stop(): running = False and the thread is joined
StopTouch ==
    /\ pc = "stop_touch"
    /\ listening' = FALSE
    /\ shutdown_log' = Append(shutdown_log, "stop")
    /\ pc' = "clear"
    /\ UNCHANGED <<loopVars, now, touch_start>>
    /\ UNCHANGED notApp

\* self.display.clear('black')
ClearBuffer ==
    /\ pc = "clear"
    /\ shutdown_log' = Append(shutdown_log, "clear")
    /\ pc' = "push"
    /\ UNCHANGED <<loopVars, now, listening, touch_start>>
    /\ UNCHANGED notApp

\* self.display.update(): the blank frame is written, or the write raises;
\* nothing in run() catches it
PushBlank ==
    /\ pc = "push"
    /\ \/ /\ shutdown_log' = Append(shutdown_log, "push")
          /\ pc' = "release"
       \/ /\ pc' = "crashed"
          /\ UNCHANGED shutdown_log
    /\ UNCHANGED <<loopVars, now, listening, touch_start>>
    /\ UNCHANGED notApp

\* self.display.cleanup(): clear('black') and update() once more
Release ==
    /\ pc = "release"
    /\ \/ /\ shutdown_log' = Append(shutdown_log, "release")
          /\ pc' = "done"
       \/ /\ pc' = "crashed"
          /\ UNCHANGED shutdown_log
    /\ UNCHANGED <<loopVars, now, listening, touch_start>>
    /\ UNCHANGED notApp

\* _signal_handler: SIGINT or SIGTERM delivered to the main thread
SignalHandler ==
    /\ ~sig_received
    /\ pc \notin {"done", "crashed"}
    /\ running' = FALSE
    /\ sig_received' = TRUE
    /\ UNCHANGED <<current_flights, selected_flight_index, last_flight_check,
                   now, pc, new_flights, clamp_idx, has_flights, polled, exc_caught, rendered,
                   tapVars, tap_clean>>
    /\ UNCHANGED <<listening, touch_start, shutdown_log, last_request>>
    /\ UNCHANGED notApp

\* _on_tap, first line: if len(self.current_flights) > 1
TapCheck ==
    /\ tap_pc = "idle"
    /\ listening
    /\ tap_idx0' = selected_flight_index
    /\ tap_len0' = Len(current_flights)
    /\ tap_clean' = TRUE
    /\ IF Len(current_flights) > 1
         THEN /\ tap_pc' = "load_idx"
              /\ UNCHANGED tap_last
         ELSE /\ tap_pc' = "idle"
              /\ tap_last' = [before |-> selected_flight_index,
                              n |-> Len(current_flights),
                              after |-> selected_flight_index,
                              clean |-> TRUE]
    /\ UNCHANGED <<mainVars, sig_received, tap_idx, tap_val>>
    /\ UNCHANGED notApp

\* _on_tap, second line: load self.selected_flight_index
TapLoadIdx ==
    /\ tap_pc = "load_idx"
    /\ tap_idx' = selected_flight_index
    /\ tap_pc' = "load_len"
    /\ UNCHANGED <<mainVars, sig_received, tap_val, tap_idx0, tap_len0, tap_clean,
                   tap_last>>
    /\ UNCHANGED notApp

\* _on_tap, second line: (index + 1) % len(self.current_flights); a zero
\* length raises ZeroDivisionError, which ends the listener's read loop
TapLoadLen ==
    /\ tap_pc = "load_len"
    /\ IF Len(current_flights) = 0
         THEN /\ tap_pc' = "dead"
              /\ UNCHANGED tap_val
         ELSE /\ tap_val' = (tap_idx + 1) % Len(current_flights)
              /\ tap_pc' = "store"
    /\ UNCHANGED <<mainVars, sig_received, tap_idx, tap_idx0, tap_len0, tap_clean,
                   tap_last>>
    /\ UNCHANGED notApp

\* _on_tap, second line: store self.selected_flight_index
TapStore ==
    /\ tap_pc = "store"
    /\ selected_flight_index' = tap_val
    /\ tap_pc' = "idle"
    /\ tap_last' = [before |-> tap_idx0, n |-> tap_len0, after |-> tap_val,
                    clean |-> tap_clean]
    /\ UNCHANGED <<running, current_flights, last_flight_check, now, pc, new_flights, clamp_idx,
                   has_flights, polled, exc_caught, rendered, sig_received,
                   tap_idx, tap_val, tap_idx0, tap_len0, tap_clean>>
    /\ UNCHANGED <<listening, touch_start, shutdown_log, last_request>>
    /\ UNCHANGED notApp

NextApp ==
    \/ LoadingInit \/ StartTouch \/ LoadingWeather \/ InitialWeather \/ LoadingScan
    \/ StartupSleep
    \/ LoopHead \/ CheckDue \/ Fetch \/ CmpLen \/ ClampLoad \/ ClampStore \/ Assign
    \/ Branch
    \/ ShowFlight \/ RenderFlight \/ Status \/ ShowIdle \/ Sleep \/ ExceptHandler
    \/ StopTouch \/ ClearBuffer \/ PushBlank \/ Release \/ SignalHandler
    \/ TapCheck \/ TapLoadIdx \/ TapLoadLen \/ TapStore

----------------------------------------------------------------------------
(* get_nearby_flights called on its own, once per feed response *)

InitFeed ==
    /\ f_resp \in Responses
    /\ f_radius \in Radii
    /\ f_result = None

IdleFeed ==
    /\ f_resp = None
    /\ f_radius = Km(RadiusKm)
    /\ f_result = None

CallFeed ==
    /\ f_result = None
    /\ f_result' = get_nearby_flights(f_resp, f_radius)
    /\ UNCHANGED <<f_resp, f_radius>>
    /\ UNCHANGED notFeed

NextFeed == CallFeed

----------------------------------------------------------------------------
(* Weather data source: src/weather.py *)

CacheDuration == 600    \* cache_duration_seconds default

WxStart == 1000         \* time.time() at construction, past the first window
WxSteps == {290, 300}
WxFetchTimes == {0, 10} \* how long requests.get takes

Temperatures == {0, 21}

\* coordinates in tenths of a degree: the configured ones and another pair
Home == <<1, 0>>
Locs == {Home, <<5, 5>>}
LocStart == 1610        \* time.time() at construction when locations change

\* What requests.get / raise_for_status / response.json() deliver.
WxResponses ==
    [kind : {"ok"}, temperature_2m : Temperatures]
    \cup [kind : {"request_error", "bad_json", "non_object",
                  "null_temperature", "null_sunrise"},
          temperature_2m : {0}]

\* _fetch_weather: the WeatherInfo built, None when an except clause
\* returned None, raised when the exception is none of those caught.  The
\* request carries self.latitude and self.longitude; requested_for keeps
\* them with the snapshot the answer is decoded to.
_fetch_weather(resp, t, loc) ==
    CASE resp.kind = "request_error" ->        \* except requests.RequestException
           [raised |-> FALSE, weather |-> None]
      [] resp.kind = "bad_json" ->             \* JSONDecodeError is a ValueError
           [raised |-> FALSE, weather |-> None]
      [] resp.kind = "non_object" ->           \* data.get: AttributeError
           [raised |-> TRUE, weather |-> None]
      [] resp.kind = "null_temperature" ->     \* None * 9: TypeError
           [raised |-> TRUE, weather |-> None]
      [] resp.kind = "null_sunrise" ->         \* 'T' in None: TypeError
           [raised |-> TRUE, weather |-> None]
      [] resp.kind = "ok" ->
           [raised |-> FALSE,
            weather |-> [temperature_c |-> resp.temperature_2m, last_updated |-> t,
                         requested_for |-> loc]]

\* a cache test that still answers from the cache at exactly the window's end
CacheValid_Inclusive(force_refresh, cached, fetched_at, t) ==
    /\ ~force_refresh
    /\ cached # None
    /\ (t - fetched_at) <= CacheDuration

\* the cache test of get_weather
CacheValid(force_refresh, cached, fetched_at, t) ==
    /\ ~force_refresh
    /\ cached # None
    /\ (t - fetched_at) < CacheDuration

InitWx ==
    /\ w_now = WxStart
    /\ cached_weather = None
    /\ last_fetch = 0
    /\ w_call = None
    /\ last_ok = None
    /\ w_loc = Home
    /\ loc_call = None

IdleWx ==
    /\ w_now = 0
    /\ cached_weather = None
    /\ last_fetch = 0
    /\ w_call = None
    /\ last_ok = None
    /\ w_loc = Home
    /\ loc_call = None

WxTick ==
    /\ \E d \in WxSteps : w_now + d <= MaxWxTime /\ w_now' = w_now + d
    /\ UNCHANGED <<cached_weather, last_fetch, w_call, last_ok, w_loc, loc_call>>
    /\ UNCHANGED notWx

\* get_weather(force_refresh) answering from the cache
GetWeatherCached ==
    \E force_refresh \in BOOLEAN :
      /\ CacheValid(force_refresh, cached_weather, last_fetch, w_now)
      /\ w_call' = [force |-> force_refresh, at |-> w_now, fetches |-> 0,
                    kind |-> "none", raised |-> FALSE, result |-> cached_weather,
                    prev_cached |-> cached_weather, prev_fetch |-> last_fetch,
                    prev_ok |-> last_ok, loc |-> w_loc]
      /\ loc_call' = None
      /\ UNCHANGED <<w_now, cached_weather, last_fetch, last_ok, w_loc>>
      /\ UNCHANGED notWx

\* get_weather(force_refresh) going to the network: now is read first, the
\* request takes d seconds, the snapshot is stamped when it is built
GetWeatherFetch ==
    \E force_refresh \in BOOLEAN, resp \in WxResponses, d \in WxFetchTimes :
      /\ ~CacheValid(force_refresh, cached_weather, last_fetch, w_now)
      /\ w_now + d <= MaxWxTime
      /\ w_now' = w_now + d
      /\ LET r == _fetch_weather(resp, w_now + d, w_loc)
             stored == ~r.raised /\ r.weather # None
         IN /\ cached_weather' = IF stored THEN r.weather ELSE cached_weather
            /\ last_fetch' = IF stored THEN w_now ELSE last_fetch
            /\ last_ok' = IF stored THEN [at |-> w_now, snap |-> r.weather]
                          ELSE last_ok
            /\ w_call' = [force |-> force_refresh, at |-> w_now, fetches |-> 1,
                          kind |-> resp.kind, raised |-> r.raised,
                          result |-> IF r.raised THEN None
                                     ELSE IF stored THEN r.weather
                                     ELSE cached_weather,
                          prev_cached |-> cached_weather, prev_fetch |-> last_fetch,
                          prev_ok |-> last_ok, loc |-> w_loc]
      /\ loc_call' = None
      /\ UNCHANGED w_loc
      /\ UNCHANGED notWx

NextWx == WxTick \/ GetWeatherCached \/ GetWeatherFetch

\* an update_location that keeps what was cached for the old coordinates
UpdateLocation_KeepsCache ==
    /\ \E new \in Locs :
         /\ loc_call' = [to |-> new, differed |-> (w_loc # new),
                         prev_cached |-> cached_weather, prev_fetch |-> last_fetch]
         /\ w_loc' = new
    /\ UNCHANGED <<cached_weather, last_fetch>>
    /\ UNCHANGED <<w_now, w_call, last_ok>>
    /\ UNCHANGED notWx

\* update_location(latitude, longitude)
UpdateLocation ==
    /\ \E new \in Locs :
         /\ loc_call' = [to |-> new, differed |-> (w_loc # new),
                         prev_cached |-> cached_weather, prev_fetch |-> last_fetch]
         /\ IF w_loc # new
              THEN /\ w_loc' = new
                   /\ cached_weather' = None
                   /\ last_fetch' = 0
              ELSE UNCHANGED <<w_loc, cached_weather, last_fetch>>
    /\ UNCHANGED <<w_now, w_call, last_ok>>
    /\ UNCHANGED notWx

InitWxLoc ==
    /\ w_now = LocStart
    /\ cached_weather = None
    /\ last_fetch = 0
    /\ w_call = None
    /\ last_ok = None
    /\ w_loc = Home
    /\ loc_call = None

\* calls in quick succession: the clock moves with the requests only
NextWxLoc == GetWeatherCached \/ GetWeatherFetch \/ UpdateLocation

----------------------------------------------------------------------------
(* Touch debouncer: SimpleTouchDetector in src/touch.py *)

DebounceMs == 300       \* self.debounce_ms

TouchStart == 1000      \* time.time() * 1000 at construction
TouchSteps == {50, 100}

\* now - self.last_tap_time > self.debounce_ms
TapAccepted(t, last) == t - last > DebounceMs

InitTouch ==
    /\ t_now = TouchStart
    /\ last_tap_time = 0
    /\ t_call = None

IdleTouch ==
    /\ t_now = 0
    /\ last_tap_time = 0
    /\ t_call = None

TouchTick ==
    /\ \E d \in TouchSteps : t_now + d <= MaxTouchTime /\ t_now' = t_now + d
    /\ UNCHANGED <<last_tap_time, t_call>>
    /\ UNCHANGED notTouch

\* SimpleTouchDetector._on_touch
OnTouch ==
    /\ last_tap_time' = IF TapAccepted(t_now, last_tap_time) THEN t_now
                        ELSE last_tap_time
    /\ t_call' = [at |-> t_now, prev_tap |-> last_tap_time,
                  invoked |-> TapAccepted(t_now, last_tap_time)]
    /\ UNCHANGED t_now
    /\ UNCHANGED notTouch

NextTouch == TouchTick \/ OnTouch

----------------------------------------------------------------------------
(* Display driver: MHS35Display.update in src/display.py *)

Width  == 480           \* width default
Height == 320           \* height default

\* virtual_size of the mirror framebuffer; 0 x 0 is a size update() treats
\* as unknown
HdmiModes == {<<1920, 1080>>, <<320, 240>>, <<0, 0>>}

HdmiDepths == {16, 24, 32}

\* A display object and what update() finds on the file system.  Without
\* mirroring the constructor never detects a resolution.
Configs ==
    [fb_present : BOOLEAN, mirror_hdmi : {TRUE}, hdmi_present : BOOLEAN,
     hdmi_mode : HdmiModes, hdmi_bpp : HdmiDepths, has_numpy : BOOLEAN]
    \cup [fb_present : BOOLEAN, mirror_hdmi : {FALSE}, hdmi_present : BOOLEAN,
          hdmi_mode : {<<0, 0>>}, hdmi_bpp : {32}, has_numpy : BOOLEAN]

\* _convert_to_rgb565 of an image of w x h pixels: the array conversion
\* covers the image; the loop reads pixels[x, y] for x < self.width and
\* y < self.height, an IndexError on a smaller image.
_convert_to_rgb565(w, h, has_numpy) ==
    IF has_numpy THEN [outcome |-> "bytes", size |-> w * h * 2]
    ELSE IF w < Width \/ h < Height THEN [outcome |-> "raise", size |-> 0]
    ELSE [outcome |-> "bytes", size |-> Width * Height * 2]

\* _convert_for_hdmi: None for an unknown size, else the frame in the
\* encoding of the framebuffer's depth
_convert_for_hdmi(cfg) ==
    LET w == cfg.hdmi_mode[1]
        h == cfg.hdmi_mode[2]
    IN IF w = 0 \/ h = 0 THEN [outcome |-> "none", size |-> 0]
       ELSE IF cfg.hdmi_bpp = 32 THEN [outcome |-> "bytes", size |-> w * h * 4]
       ELSE IF cfg.hdmi_bpp = 16 THEN _convert_to_rgb565(w, h, cfg.has_numpy)
       ELSE [outcome |-> "bytes", size |-> w * h * 3]

InitDisplay ==
    /\ d_cfg \in Configs
    /\ d_pc = "call"
    /\ d_out = [primary |-> "none", primary_bytes |-> 0,
                mirror |-> "not_reached", mirror_bytes |-> 0, error |-> "none"]

IdleDisplay ==
    /\ d_cfg = None
    /\ d_pc = "idle"
    /\ d_out = None

\* an update() that returns once the preview is saved
UpdatePrimary_ReturnsEarly ==
    /\ d_pc = "call"
    /\ IF ~d_cfg.fb_present
         THEN /\ d_out' = [d_out EXCEPT !.primary = "preview"]
              /\ d_pc' = "returned"
         ELSE \/ /\ d_out' = [d_out EXCEPT
                                !.primary = "written",
                                !.primary_bytes =
                                    _convert_to_rgb565(Width, Height, d_cfg.has_numpy).size]
                 /\ d_pc' = "mirror"
              \/ /\ d_out' = [d_out EXCEPT !.error = "primary"]
                 /\ d_pc' = "raised"
    /\ UNCHANGED d_cfg
    /\ UNCHANGED notDisplay

\* update(), first statement: the preview file when the device path is
\* absent (the file lies in /tmp, taken to be writable), else the RGB565
\* frame written to the device; an error of open() or write() propagates
UpdatePrimary ==
    /\ d_pc = "call"
    /\ IF ~d_cfg.fb_present
         THEN /\ d_out' = [d_out EXCEPT !.primary = "preview"]
              /\ d_pc' = "mirror"
         ELSE \/ /\ d_out' = [d_out EXCEPT
                                !.primary = "written",
                                !.primary_bytes =
                                    _convert_to_rgb565(Width, Height, d_cfg.has_numpy).size]
                 /\ d_pc' = "mirror"
              \/ /\ d_out' = [d_out EXCEPT !.error = "primary"]
                 /\ d_pc' = "raised"
    /\ UNCHANGED d_cfg
    /\ UNCHANGED notDisplay

\* update(), second statement: if self.mirror_hdmi and os.path.exists(FB_HDMI),
\* the frame is built and written inside try ... except (IOError, OSError)
UpdateMirror ==
    /\ d_pc = "mirror"
    /\ IF ~(d_cfg.mirror_hdmi /\ d_cfg.hdmi_present)
         THEN /\ d_out' = [d_out EXCEPT !.mirror = "skipped"]
              /\ d_pc' = "returned"
         ELSE LET hdmi_data == _convert_for_hdmi(d_cfg)
              IN IF hdmi_data.outcome = "raise"
                   THEN /\ d_out' = [d_out EXCEPT !.mirror = "build_failed",
                                                  !.error = "mirror"]
                        /\ d_pc' = "raised"
                 ELSE IF hdmi_data.outcome = "none" \/ hdmi_data.size = 0
                   THEN /\ d_out' = [d_out EXCEPT !.mirror = "no_data"]
                        /\ d_pc' = "returned"
                 ELSE \/ /\ d_out' = [d_out EXCEPT !.mirror = "written",
                                                   !.mirror_bytes = hdmi_data.size]
                         /\ d_pc' = "returned"
                      \/ /\ d_out' = [d_out EXCEPT !.mirror = "write_failed"]
                         /\ d_pc' = "returned"
    /\ UNCHANGED d_cfg
    /\ UNCHANGED notDisplay

NextDisplay == UpdatePrimary \/ UpdateMirror

----------------------------------------------------------------------------
(* RGB565 conversion of one pixel: _rgb_to_565 / _convert_to_rgb565 *)

\* channel values the conversion is run on
ChannelVals == {0, 1, 7, 8, 100, 131, 252, 255}

\* Python's & on non-negative integers
RECURSIVE BitAnd(_, _)
BitAnd(a, b) ==
    IF a = 0 \/ b = 0 THEN 0
    ELSE (a % 2) * (b % 2) + 2 * BitAnd(a \div 2, b \div 2)

\* Python's | on non-negative integers
RECURSIVE BitOr(_, _)
BitOr(a, b) ==
    IF a = 0 THEN b
    ELSE IF b = 0 THEN a
    ELSE (IF a % 2 = 1 \/ b % 2 = 1 THEN 1 ELSE 0) + 2 * BitOr(a \div 2, b \div 2)

ShiftLeft(a, n)  == a * 2^n
ShiftRight(a, n) == a \div 2^n

\* a packing that keeps five bits of green
_rgb_to_565_Green5(r, g, b) ==
    BitOr(BitOr(ShiftLeft(BitAnd(r, 248), 8), ShiftLeft(BitAnd(g, 248), 3)),
          ShiftRight(b, 3))

\* ((r & 0xF8) << 8) | ((g & 0xFC) << 3) | (b >> 3)
_rgb_to_565(r, g, b) ==
    BitOr(BitOr(ShiftLeft(BitAnd(r, 248), 8), ShiftLeft(BitAnd(g, 252), 3)),
          ShiftRight(b, 3))

\* the loop of _convert_to_rgb565 for one pixel: the value and the two
\* bytes stored at data[idx], data[idx + 1]
Rgb565Scalar(r, g, b) ==
    LET color == _rgb_to_565(r, g, b)
    IN [color |-> color,
        bytes |-> <<BitAnd(color, 255), BitAnd(ShiftRight(color, 8), 255)>>]

\* the array path of _convert_to_rgb565 for one pixel: uint16 arithmetic,
\* astype('<u2').tobytes()
Rgb565Numpy(r, g, b) ==
    LET r16 == ShiftLeft(BitAnd(r, 248), 8) % 65536
        g16 == ShiftLeft(BitAnd(g, 252), 3) % 65536
        b16 == ShiftRight(b, 3) % 65536
        rgb565 == BitOr(BitOr(r16, g16), b16)
    IN [color |-> rgb565, bytes |-> <<rgb565 % 256, rgb565 \div 256>>]

InitPixel ==
    /\ px_in \in [r : ChannelVals, g : ChannelVals, b : ChannelVals,
                  has_numpy : BOOLEAN]
    /\ px_out = None

IdlePixel ==
    /\ px_in = None
    /\ px_out = None

\* _convert_to_rgb565 applied to the pixel
ConvertPixel ==
    /\ px_out = None
    /\ px_out' = IF px_in.has_numpy THEN Rgb565Numpy(px_in.r, px_in.g, px_in.b)
                 ELSE Rgb565Scalar(px_in.r, px_in.g, px_in.b)
    /\ UNCHANGED px_in
    /\ UNCHANGED notPixel

NextPixel == ConvertPixel

----------------------------------------------------------------------------
(* Touch handler: TouchHandler.start / stop / _read_events in src/touch.py *)

MaxEvents == 3          \* input events delivered to the device in one run

\* BTN_TOUCH with value 1, BTN_TOUCH with value 0, an EV_ABS coordinate,
\* an EV_SYN report
Events == {"down", "up", "abs", "syn"}

InitHandler ==
    /\ h_pc = "not_started"
    /\ h_running = FALSE
    /\ h_stopped = FALSE
    /\ touching = FALSE
    /\ k_queue = <<>>
    /\ py_buf = <<>>
    /\ h_hist = <<>>

IdleHandler ==
    /\ h_pc = "idle"
    /\ h_running = FALSE
    /\ h_stopped = FALSE
    /\ touching = FALSE
    /\ k_queue = <<>>
    /\ py_buf = <<>>
    /\ h_hist = <<>>

\* start() with the device present: running = True and the thread started
StartListener ==
    /\ h_pc = "not_started"
    /\ h_running' = TRUE
    /\ h_pc' = "loop"
    /\ UNCHANGED <<h_stopped, touching, k_queue, py_buf, h_hist>>
    /\ UNCHANGED notHandler

\* stop(): self.running = False; the join waits at most one second
StopListener ==
    /\ h_pc # "not_started"
    /\ ~h_stopped
    /\ h_running' = FALSE
    /\ h_stopped' = TRUE
    /\ UNCHANGED <<h_pc, touching, k_queue, py_buf, h_hist>>
    /\ UNCHANGED notHandler

\* the touch controller reports an event
InputEvent ==
    /\ h_pc \notin {"not_started", "exited"}
    /\ Len(h_hist) + Len(py_buf) + Len(k_queue) < MaxEvents
    /\ \E e \in Events : k_queue' = Append(k_queue, e)
    /\ UNCHANGED <<h_pc, h_running, h_stopped, touching, py_buf, h_hist>>
    /\ UNCHANGED notHandler

\* while self.running:
LoopTest ==
    /\ h_pc = "loop"
    /\ h_pc' = IF h_running THEN "select" ELSE "exited"
    /\ UNCHANGED <<h_running, h_stopped, touching, k_queue, py_buf, h_hist>>
    /\ UNCHANGED notHandler

\* a wait on the device without a timeout
Select_Blocking ==
    /\ h_pc = "select"
    /\ k_queue # <<>>
    /\ h_pc' = "read"
    /\ UNCHANGED <<h_running, h_stopped, touching, k_queue, py_buf, h_hist>>
    /\ UNCHANGED notHandler

\* r, _, _ = select.select([device], [], [], 0.5); if not r: continue
Select ==
    /\ h_pc = "select"
    /\ h_pc' = IF k_queue # <<>> THEN "read" ELSE "loop"
    /\ UNCHANGED <<h_running, h_stopped, touching, k_queue, py_buf, h_hist>>
    /\ UNCHANGED notHandler

\* device.read(EVENT_SIZE) and the processing of the event: the buffered
\* file object answers from its buffer, and when that is empty reads all
\* the kernel holds.  The callback returns or raises; what it raises is
\* caught outside the loop, which ends the thread before
\* self.touching = False.
ReadEvent ==
    /\ h_pc = "read"
    /\ LET buf  == IF py_buf = <<>> THEN k_queue ELSE py_buf
           e    == Head(buf)
           call == e = "up" /\ touching
       IN /\ py_buf' = Tail(buf)
          /\ k_queue' = IF py_buf = <<>> THEN <<>> ELSE k_queue
          /\ h_hist' = Append(h_hist, [ev |-> e, called |-> call])
          /\ \/ /\ touching' = (IF e = "down" THEN TRUE
                                ELSE IF e = "up" THEN FALSE ELSE touching)
                /\ h_pc' = "loop"
             \/ /\ call
                /\ h_pc' = "exited"
                /\ UNCHANGED touching
    /\ UNCHANGED <<h_running, h_stopped>>
    /\ UNCHANGED notHandler

\* the steps of the listener thread
ListenerStep == LoopTest \/ Select \/ ReadEvent

NextHandler == StartListener \/ StopListener \/ InputEvent \/ ListenerStep

----------------------------------------------------------------------------
(* Idle screen: IdleScreen._get_current_page and render in src/ui.py *)

WEATHER_PAGES      == 3
PAGE_CYCLE_SECONDS == 5
IdleStart   == 1000     \* time of the first state, tenths of a second
MaxIdleTime == 1200     \* the clock stops here
MaxRenders  == 3        \* renders counted
IdleSteps   == {1, 24, 50}

\* now = time.time(); page = int(now / PAGE_CYCLE_SECONDS) % WEATHER_PAGES,
\* with now in tenths of a second; the object is not read
_get_current_page(self, t) == (t \div (PAGE_CYCLE_SECONDS * 10)) % WEATHER_PAGES

\* __init__: self.current_page = 0, self.last_page_change = 0
InitIdle ==
    /\ i_now = IdleStart
    /\ i_self = [current_page |-> 0, last_page_change |-> 0]
    /\ i_renders = 0
    /\ i_call = None

IdleIdle ==
    /\ i_now = 0
    /\ i_self = None
    /\ i_renders = 0
    /\ i_call = None

IdleTick ==
    /\ \E d \in IdleSteps :
         /\ i_now + d <= MaxIdleTime
         /\ i_now' = i_now + d
    /\ UNCHANGED <<i_self, i_renders, i_call>>
    /\ UNCHANGED notIdle

\* a render that turns the page kept in the object once per cycle
IdleRender_Stateful ==
    /\ LET turn == i_now - i_self.last_page_change >= PAGE_CYCLE_SECONDS * 10
           page == IF turn THEN (i_self.current_page + 1) % WEATHER_PAGES
                           ELSE i_self.current_page
       IN /\ i_self' = IF turn THEN [current_page |-> page, last_page_change |-> i_now]
                               ELSE i_self
          /\ \E weather \in BOOLEAN :
                 i_call' = [at |-> i_now, page |-> IF weather THEN page ELSE -1]
    /\ i_renders' = IF i_renders < MaxRenders THEN i_renders + 1 ELSE i_renders
    /\ UNCHANGED i_now
    /\ UNCHANGED notIdle

\* render(): with weather to show, page = self._get_current_page() and that
\* page is drawn; without, no page is (-1)
IdleRender ==
    /\ \E weather \in BOOLEAN :
         i_call' = [at |-> i_now,
                    page |-> IF weather THEN _get_current_page(i_self, i_now) ELSE -1]
    /\ i_renders' = IF i_renders < MaxRenders THEN i_renders + 1 ELSE i_renders
    /\ UNCHANGED <<i_now, i_self>>
    /\ UNCHANGED notIdle

NextIdle == IdleTick \/ IdleRender

----------------------------------------------------------------------------
(* Specifications *)

Init == InitApp /\ IdleFeed /\ IdleWx /\ IdleTouch /\ IdleDisplay /\ IdlePixel /\ IdleHandler /\ IdleIdle
Next == NextApp
Spec == Init /\ [][Next]_vars

InitFeedOnly == InitFeed /\ InitApp /\ IdleWx /\ IdleTouch /\ IdleDisplay /\ IdlePixel /\ IdleHandler /\ IdleIdle
SpecFeed == InitFeedOnly /\ [][NextFeed]_vars

InitWxOnly == InitWx /\ InitApp /\ IdleFeed /\ IdleTouch /\ IdleDisplay /\ IdlePixel /\ IdleHandler /\ IdleIdle
SpecWeather == InitWxOnly /\ [][NextWx]_vars

InitTouchOnly == InitTouch /\ InitApp /\ IdleFeed /\ IdleWx /\ IdleDisplay /\ IdlePixel /\ IdleHandler /\ IdleIdle
SpecTouch == InitTouchOnly /\ [][NextTouch]_vars

InitDisplayOnly == InitDisplay /\ InitApp /\ IdleFeed /\ IdleWx /\ IdleTouch /\ IdlePixel /\ IdleHandler /\ IdleIdle
SpecDisplay == InitDisplayOnly /\ [][NextDisplay]_vars

InitPixelOnly == InitPixel /\ InitApp /\ IdleFeed /\ IdleWx /\ IdleTouch /\ IdleDisplay /\ IdleHandler /\ IdleIdle
SpecPixel == InitPixelOnly /\ [][NextPixel]_vars

\* The listener is a thread of its own: the scheduler lets it take its next
\* step, and select returns after half a second at the latest.
InitHandlerOnly ==
    InitHandler /\ InitApp /\ IdleFeed /\ IdleWx /\ IdleTouch /\ IdleDisplay /\ IdlePixel
        /\ IdleIdle
InitWxLocOnly ==
    InitWxLoc /\ InitApp /\ IdleFeed /\ IdleTouch /\ IdleDisplay /\ IdlePixel
        /\ IdleHandler /\ IdleIdle
SpecWeatherLoc == InitWxLocOnly /\ [][NextWxLoc]_vars

SpecListener == InitHandlerOnly /\ [][NextHandler]_vars /\ WF_vars(ListenerStep)

InitIdleOnly ==
    InitIdle /\ InitApp /\ IdleFeed /\ IdleWx /\ IdleTouch /\ IdleDisplay /\ IdlePixel
        /\ IdleHandler
SpecIdle == InitIdleOnly /\ [][NextIdle]_vars

----------------------------------------------------------------------------
(* Properties *)

Max(a, b) == IF a >= b THEN a ELSE b

CleanupPcs == {"stop_touch", "clear", "push", "release", "done"}

\* C1: after every flight poll of _check_flights the selected index is
\* within 0 .. max(1, len(flights)) - 1, and it is 0 whenever the new list's
\* length differs from the length of the list held before the poll.
C1_IndexAfterPoll ==
    [][(pc = "assign" /\ pc' = "branch") =>
         /\ selected_flight_index' >= 0
         /\ selected_flight_index' < Max(1, Len(current_flights'))
         /\ (Len(current_flights') # Len(current_flights)
               => selected_flight_index' = 0)]_vars

\* C2: whenever the main loop is about to index the flight list with the
\* selected index (_show_flight, the status line of run), the index is a
\* valid position of the list, under every interleaving with _on_tap.
C2_IndexValidWhenIndexed ==
    (pc \in {"show_flight", "status"} /\ current_flights # <<>>)
        => selected_flight_index < Len(current_flights)

C4_TapAdvancesModulo ==
    (tap_last # None /\ tap_last.clean) =>
        tap_last.after = IF tap_last.n = 0 THEN tap_last.before
                         ELSE (tap_last.before + 1) % tap_last.n

\* C5: after a successful fetch at time t, a get_weather() call without
\* force_refresh before t + cache_duration returns the snapshot of that
\* fetch without network access, and one at or after t + cache_duration
\* performs exactly one network fetch.
C5_CacheWindow ==
    (w_call # None /\ ~w_call.force /\ w_call.prev_ok # None) =>
        IF w_call.at < w_call.prev_ok.at + CacheDuration
          THEN /\ w_call.fetches = 0
               /\ ~w_call.raised
               /\ w_call.result = w_call.prev_ok.snap
          ELSE w_call.fetches = 1

\* C5 witness: a call strictly inside the window of an earlier successful
\* fetch, answered from the cache.
C5_Witness ==
    /\ w_call # None
    /\ ~w_call.force
    /\ w_call.prev_ok # None
    /\ w_call.at > w_call.prev_ok.at
    /\ w_call.at < w_call.prev_ok.at + CacheDuration
    /\ w_call.fetches = 0

\* C6: when a refetch fails, get_weather returns the previously cached
\* snapshot (or None) and leaves cache and timestamp unchanged.
C6_FailedRefetchKeepsCache ==
    (w_call # None /\ w_call.fetches = 1 /\ w_call.kind # "ok") =>
        /\ ~w_call.raised
        /\ w_call.result = w_call.prev_cached
        /\ cached_weather = w_call.prev_cached
        /\ last_fetch = w_call.prev_fetch

\* C7: get_nearby_flights never raises; for every outcome of the request
\* other than a JSON object of entries it returns an empty list.
C7_FeedNeverRaises ==
    f_result # None =>
        /\ ~f_result.raised
        /\ (f_resp.kind # "json_object" => f_result.flights = <<>>)

\* C8: every weather response that arrives but cannot be decoded is caught
\* inside the weather source: get_weather raises nothing and returns the
\* stale cache or None.
C8_UndecodableCaught ==
    (w_call # None /\ w_call.kind \in {"bad_json", "non_object",
                                        "null_temperature", "null_sunrise"}) =>
        /\ ~w_call.raised
        /\ w_call.result = w_call.prev_cached

\* C9: a touch less than 300 ms after the previous accepted tap never
\* invokes the callback, a touch 300 ms or more after it does, and a
\* suppressed touch does not move the reference time.
C9_Debounce ==
    t_call # None =>
        /\ (t_call.at - t_call.prev_tap < DebounceMs => ~t_call.invoked)
        /\ (t_call.at - t_call.prev_tap >= DebounceMs => t_call.invoked)
        /\ (~t_call.invoked => last_tap_time = t_call.prev_tap)

\* C10: an exception raised inside a main-loop iteration is caught by the
\* loop: as long as no interrupt signal has been received the running flag
\* stays set and the main thread never leaves the loop.
C10_LoopSurvivesExceptions ==
    ~sig_received => (running /\ pc \notin CleanupPcs)

\* C10 witness: a new iteration has started after the loop caught an
\* exception, with no signal received.
C10_Witness ==
    /\ exc_caught >= 1
    /\ pc = "check"
    /\ ~sig_received

----------------------------------------------------------------------------
(* Flight data source, continued *)

\* An entry every field of which the loop body can coerce.
WellFormed(e) ==
    /\ e.form = "full"
    /\ e.lat[1] # "bad" /\ e.lon[1] # "bad"
    /\ e.alt = "num"

\* The distance of the position an entry decodes to.
EntryDistance(e) == _haversine_distance(CoerceCoord(e.lat), CoerceCoord(e.lon))

\* A record of the list was built from entry e.
Returned(e, flights) ==
    \E i \in 1..Len(flights) :
        /\ flights[i].latitude = CoerceCoord(e.lat)
        /\ flights[i].longitude = CoerceCoord(e.lon)

FlightDistance(f) == _haversine_distance(f.latitude, f.longitude)

C15_SortedByDistance ==
    f_result # None =>
        \A i, j \in 1..Len(f_result.flights) :
            i < j => FlightDistance(f_result.flights[i])
                         <= FlightDistance(f_result.flights[j])

\* C16: an entry whose position is (0, 0), or whose latitude and longitude
\* are both missing, is never in the list get_nearby_flights returns, also
\* when (0, 0) is within the radius of the observer.
C16_NullPositionDropped ==
    f_result # None =>
        \A i \in 1..Len(f_result.flights) :
            ~(f_result.flights[i].latitude = 0 /\ f_result.flights[i].longitude = 0)

\* a numeric (0, 0) and a missing position, within the radius, in a response
\* that was decoded to the end
C16_Witness ==
    /\ f_result # None /\ ~f_result.raised
    /\ f_resp.kind = "json_object"
    /\ _haversine_distance(0, 0) <= f_radius
    /\ \E k \in 1..Len(f_resp.entries) :
           /\ WellFormed(f_resp.entries[k])
           /\ f_resp.entries[k].lat = <<"num", 0>> /\ f_resp.entries[k].lon = <<"num", 0>>
    /\ \E k \in 1..Len(f_resp.entries) :
           /\ WellFormed(f_resp.entries[k])
           /\ f_resp.entries[k].lat = <<"empty", 0>> /\ f_resp.entries[k].lon = <<"empty", 0>>

\* C17: a feed entry that is not a list of at least 14 elements, or a field
\* of which cannot be coerced, is skipped without raising, and every
\* well-formed entry of the same response within the radius is returned.
C17_MalformedSkipped ==
    (f_result # None /\ f_resp.kind = "json_object") =>
        /\ ~f_result.raised
        /\ \A k \in 1..Len(f_resp.entries) :
               (/\ WellFormed(f_resp.entries[k])
                /\ ~NullPosition(f_resp.entries[k])
                /\ EntryDistance(f_resp.entries[k]) <= f_radius)
                   => Returned(f_resp.entries[k], f_result.flights)

----------------------------------------------------------------------------
(* Orchestrator, continued *)

ShutdownOrder == <<"stop", "clear", "push", "release">>

\* C11: from the call of run() until a signal is received, no failure of a
\* collaborator ends the run, the failures during the loading screens, the
\* initial weather fetch and the cleanup included: the run ends only through
\* the shutdown a signal triggers.
C11_OnlySignalEndsRun ==
    pc \in {"done", "crashed"} => (pc = "done" /\ sig_received)

\* C12: once a signal has been delivered the loop starts no further
\* iteration and the run performs the shutdown steps in order: the listener
\* is stopped, the buffer cleared, the blank frame pushed, the display
\* released.
C12_OrderedShutdown ==
    /\ (sig_received /\ pc = "loop") => ~running
    /\ \E k \in 0..4 : shutdown_log = SubSeq(ShutdownOrder, 1, k)
    /\ (sig_received /\ pc \in {"done", "crashed"}) => shutdown_log = ShutdownOrder

\* C13: an iteration polls the feed iff at least flight_update_interval
\* seconds have passed since the timestamp of the previous poll; the steps
\* of an iteration that does not poll change neither the flight list nor
\* the selected index; any two feed requests are an interval apart.
C13_PollInterval ==
    [][ /\ (pc = "check" /\ pc' # "check") =>
              /\ (pc' = "fetch") <=> (now - last_flight_check >= FlightUpdateInterval)
              /\ (pc' = "fetch") => last_flight_check' = now
              /\ (pc' # "fetch") => (polled' = "skipped" /\ last_flight_check' = last_flight_check)
        /\ (pc = "fetch" /\ pc' # "fetch") =>
              (last_request = -1 \/ now - last_request >= FlightUpdateInterval)
        /\ (last_request' # last_request) => (pc = "fetch" /\ polled = "none")
        /\ (pc' # pc /\ (polled = "skipped" \/ polled' = "skipped")) =>
              /\ current_flights' = current_flights
              /\ selected_flight_index' = selected_flight_index
      ]_vars

\* a second request was made, and an iteration that did not poll went by
\* with a flight list in place
C13_Witness ==
    /\ last_request >= 2 * FlightUpdateInterval
    /\ polled = "skipped"
    /\ pc = "sleep"
    /\ current_flights # <<>>

----------------------------------------------------------------------------
(* Weather data source, continued *)

\* C18: get_weather(force_refresh=True) fetches on every call, also inside
\* the cache window of a previous successful fetch; a successful fetch
\* replaces the cached snapshot and the timestamp, a failed one returns the
\* stale cached snapshot.
C18_ForceRefresh ==
    (w_call # None /\ w_call.force) =>
        /\ w_call.fetches = 1
        /\ (w_call.kind = "ok" =>
               /\ ~w_call.raised
               /\ w_call.result # None
               /\ w_call.result.last_updated >= w_call.at
               /\ cached_weather = w_call.result
               /\ last_fetch = w_call.at)
        /\ (w_call.kind # "ok" =>
               /\ ~w_call.raised
               /\ w_call.result = w_call.prev_cached)

----------------------------------------------------------------------------
(* Display driver, continued *)

MirrorConfigured == d_cfg.mirror_hdmi /\ d_cfg.hdmi_present

\* C19: in update(), a failure while the mirror frame is built or written
\* is swallowed: update() returns normally, the primary write before it
\* stands, and no mirror failure reaches the caller.
C19_MirrorFailureSwallowed ==
    (d_pc \in {"returned", "raised"}
        /\ d_out.mirror \in {"build_failed", "write_failed"}) =>
        /\ d_pc = "returned"
        /\ d_out.error = "none"
        /\ d_out.primary \in {"written", "preview"}

C21_Rgb565 ==
    px_out # None =>
        LET v == px_out.color
        IN /\ v = (px_in.r \div 8) * 2048 + (px_in.g \div 4) * 32 + (px_in.b \div 8)
           /\ v < 65536
           /\ ((v \div 2048) % 32) * 8 = px_in.r - (px_in.r % 8)
           /\ ((v \div 32) % 64) * 4 = px_in.g - (px_in.g % 4)
           /\ (v % 32) * 8 = px_in.b - (px_in.b % 8)
           /\ px_out.bytes = <<v % 256, v \div 256>>

\* a pixel with low bits set in every channel and a non-zero high byte,
\* converted on the scalar path
C21_Witness ==
    /\ px_out # None
    /\ ~px_in.has_numpy
    /\ px_in.r = 131 /\ px_in.g = 7 /\ px_in.b = 255
    /\ px_out.bytes[2] # 0 /\ px_out.bytes[1] # px_out.bytes[2]

\* C22: for a mirror sink of depth 32, 16 or 24 the frame _convert_for_hdmi
\* produces covers hdmi_width x hdmi_height pixels at 4, 2 or 3 bytes per
\* pixel, the same on the numpy path and on the loop path.
C22_MirrorFrameSize ==
    (d_pc = "returned" /\ d_out.mirror = "written") =>
        d_out.mirror_bytes =
            d_cfg.hdmi_mode[1] * d_cfg.hdmi_mode[2] * (d_cfg.hdmi_bpp \div 8)

----------------------------------------------------------------------------
(* Flight data source, flight numbers *)

\* the text of a raw field, empty when the feed has none
FeedText(raw) == IF raw[1] = "str" THEN raw[2] ELSE ""

\* the name the feed gives an entry: its flight number, else its callsign
NamedByFeed(e) ==
    IF FeedText(e.fn) # "" THEN FeedText(e.fn)
    ELSE IF FeedText(e.cs) # "" THEN FeedText(e.cs)
    ELSE "Unknown"

\* C26: the flight_number of a decoded record is the feed's flight number
\* when that is non-empty, otherwise the feed's callsign when that is
\* non-empty, otherwise "Unknown"; it is never the empty string.
C26_FlightNumberFallback ==
    (f_result # None /\ ~f_result.raised) =>
        /\ \A i \in 1..Len(f_result.flights) :
               /\ f_result.flights[i].flight_number # ""
               /\ \E k \in 1..Len(f_resp.entries) :
                      /\ f_result.flights[i].latitude = CoerceCoord(f_resp.entries[k].lat)
                      /\ f_result.flights[i].longitude = CoerceCoord(f_resp.entries[k].lon)
                      /\ f_result.flights[i].flight_number = NamedByFeed(f_resp.entries[k])
        /\ \A k \in 1..Len(f_resp.entries) :
               LET e == f_resp.entries[k]
               IN (WellFormed(e) /\ ~NullPosition(e) /\ EntryDistance(e) <= f_radius) =>
                      \E i \in 1..Len(f_result.flights) :
                          /\ f_result.flights[i].latitude = CoerceCoord(e.lat)
                          /\ f_result.flights[i].longitude = CoerceCoord(e.lon)
                          /\ f_result.flights[i].flight_number = NamedByFeed(e)

\* one record named by the feed's callsign and one named "Unknown"
C26_Witness ==
    /\ f_result # None /\ ~f_result.raised
    /\ Len(f_result.flights) = 2
    /\ f_result.flights[1].flight_number = "BAW123"
    /\ f_result.flights[2].flight_number = "Unknown"
    /\ f_resp.entries[2].fn = <<"null", "">>
    /\ f_resp.entries[2].cs = <<"absent", "">>

----------------------------------------------------------------------------
(* Touch handler, continued *)

\* C23: after stop() has cleared the running flag the listener thread
\* leaves its read loop and ends, with no further input event needed.
C23_ListenerTerminates == h_stopped ~> (h_pc = "exited")

\* a listener stopped and ended without a single input event
C23_Witness ==
    /\ h_stopped
    /\ h_pc = "exited"
    /\ h_hist = <<>> /\ k_queue = <<>> /\ py_buf = <<>>

\* a touch-down was processed before event i and no touch-up since
DownPending(i) ==
    \E j \in 1..(i - 1) :
        /\ h_hist[j].ev = "down"
        /\ \A k \in (j + 1)..(i - 1) : h_hist[k].ev # "up"

\* C28: the callback is invoked on a touch-up that a touch-down preceded
\* since the previous touch-up, once per such pair, and on no other event;
\* the touching flag is false after every touch-up.
C28_CallbackOnTouchUp ==
    /\ \A i \in 1..Len(h_hist) :
           h_hist[i].called <=> (h_hist[i].ev = "up" /\ DownPending(i))
    /\ (h_hist # <<>> /\ h_hist[Len(h_hist)].ev = "up") => ~touching

----------------------------------------------------------------------------
(* Orchestrator, touch input *)

\* C24: when no touch device exists start() returns False, no listener
\* thread runs and the tap callback is never invoked; the main loop polls
\* and renders all the same, and stop() at shutdown completes.
C24_NoDeviceNoTaps ==
    touch_start = "no_device" =>
        /\ ~listening
        /\ tap_pc = "idle"
        /\ tap_last = None

\* without a device: polls answered with two flights, the run ended by a
\* signal, stop() and the rest of the cleanup done
C24_Witness ==
    /\ touch_start = "no_device"
    /\ Len(current_flights) > 1
    /\ selected_flight_index = 0
    /\ shutdown_log # <<>> /\ shutdown_log[1] = "stop"
    /\ pc = "done"

\* C27: a started listener thread leaves its read loop only after stop():
\* under no interleaving with the main loop does the tap callback raise
\* and end the thread.
C27_ListenerSurvives == tap_pc # "dead"

\* C29: when the flight source raises during a due poll, _check_flights
\* leaves the flight list and the selected index as they were and reports
\* has-flights from that list; the poll timestamp has advanced already, so
\* the next request comes a full interval later.
C29_FailedPollKeepsList ==
    [][ /\ (pc = "fetch" /\ polled' = "raised") =>
              /\ current_flights' = current_flights
              /\ selected_flight_index' = selected_flight_index
              /\ has_flights' = (Len(current_flights) > 0)
              /\ last_flight_check = now
              /\ last_flight_check' = last_flight_check
              /\ last_request' = last_flight_check
              /\ pc' = "branch"
        /\ (pc = "check" /\ pc' = "fetch" /\ last_request # -1) =>
              now - last_request >= FlightUpdateInterval
      ]_vars

\* a failed poll with a flight on the list, reported as has-flights
C29_Witness ==
    /\ polled = "raised"
    /\ pc = "branch"
    /\ Len(current_flights) > 0
    /\ has_flights
    /\ last_request = last_flight_check

----------------------------------------------------------------------------
(* Idle screen *)

\* C25: the auxiliary page of the idle view is floor(t / 5) mod 3 for the
\* time t of the render, whatever the number of renders before it, and the
\* fields stored in the screen object are neither read nor changed.
C25_PageFromClock ==
    i_call # None =>
        /\ i_call.page # -1 => i_call.page = (i_call.at \div 50) % 3
        /\ i_self = [current_page |-> 0, last_page_change |-> 0]

\* a third render, 10.1 s after the start, drawing page 1 (t = 110.1 s)
C25_Witness ==
    /\ i_call # None
    /\ i_renders = 3
    /\ i_call.at = 1101
    /\ i_call.page = 1

----------------------------------------------------------------------------
(* Weather, change of location *)

\* what an update_location leaves behind, until the next get_weather
AfterUpdateLocation ==
    loc_call # None =>
        /\ w_loc = loc_call.to
        /\ IF loc_call.differed
             THEN cached_weather = None /\ last_fetch = 0
             ELSE /\ cached_weather = loc_call.prev_cached
                  /\ last_fetch = loc_call.prev_fetch

\* a get_weather call returns no snapshot requested for other coordinates
\* than those current at the call
NoForeignSnapshot ==
    (w_call # None /\ w_call.result # None) =>
        w_call.result.requested_for = w_call.loc

====
